---------------------------- MODULE Spec2Model ----------------------------
(***************************************************************************)
(* Ticket prediction dashboard (src/app.py): the response normaliser       *)
(* parse_predictions, the summary of plot_predictions, the quick-range     *)
(* mapper map_quick_to_dates and the three action handlers.                *)
(*                                                                         *)
(* Numbers are carried in tenths (3.7 is 37, 10 is 100), so that rounding  *)
(* and truncation are real conversions.  Calendar dates are proleptic      *)
(* Gregorian ordinals, as datetime.date.toordinal() gives them.            *)
(***************************************************************************)
EXTENDS Integers, Sequences, FiniteSets, TLC

VARIABLES today, handler, args, payload, raised, preds, date_key, value_key,
          df, err, summary, log, qopt, qrange

vars == <<today, handler, args, payload, raised, preds, date_key, value_key,
          df, err, summary, log, qopt, qrange>>

(***************************************************************************)
(* Bounds of the model.                                                    *)
(***************************************************************************)
\* longest list or mapping a payload of the universe holds
MaxLen == 2
\* largest value of the manual-days input that is tried (the widget allows 1..365)
MaxManualDays == 2
\* the reference dates of the quick-range specification: NumYears years from FirstYear
FirstYear == 2023
NumYears == 2

(***************************************************************************)
(* JSON values, as resp.json() decodes them.  One record shape for all:    *)
(* t the type, n a number in tenths (or 1/0 for a boolean), s a string,    *)
(* ks the keys of an object in field order, xs the values of an object or  *)
(* the items of a list.                                                    *)
(***************************************************************************)
JV(t, n, s, ks, xs) == [t |-> t, n |-> n, s |-> s, ks |-> ks, xs |-> xs]
JNull == JV("null", 0, "", <<>>, <<>>)
JBool(b) == JV("bool", IF b THEN 1 ELSE 0, "", <<>>, <<>>)
JNum(n) == JV("num", n, "", <<>>, <<>>)
JStr(s) == JV("str", 0, s, <<>>, <<>>)
JList(xs) == JV("list", 0, "", <<>>, xs)
JObj(ks, xs) == JV("obj", 0, "", ks, xs)

\* cells that only a DataFrame holds: a Timestamp (n its date ordinal), NaT, NaN
Timestamp(n) == JV("ts", n, "", <<>>, <<>>)
NaT == JV("nat", 0, "", <<>>, <<>>)
NaN == JV("nan", 0, "", <<>>, <<>>)

\* Python's None for a key variable (no key of the universe is this string)
NoKey == "<None>"

\* isinstance(v, dict), isinstance(v, list), isinstance(v, (int, float)):
\* bool is a subclass of int
IsDict(v) == v.t = "obj"
IsList(v) == v.t = "list"
IsNumber(v) == v.t \in {"num", "bool"}

\* Python truthiness: `not payload`, `if err:`
Truthy(v) ==
    CASE v.t = "null" -> FALSE
      [] v.t \in {"bool", "num"} -> v.n # 0
      [] v.t = "str" -> v.s # ""
      [] v.t \in {"list", "obj"} -> Len(v.xs) > 0
      [] OTHER -> TRUE

\* k in d, d[k] / d.get(k) for a dict d
HasKey(d, k) == \E i \in 1..Len(d.ks) : d.ks[i] = k
Get(d, k) == IF HasKey(d, k) THEN d.xs[CHOOSE i \in 1..Len(d.ks) : d.ks[i] = k] ELSE JNull

\* the proper substrings among the strings of the universe (a in b, a # b)
ProperSubstrings == {<<"y", "day">>, <<"n", "when">>, <<"n", "count">>,
                     <<"predictions", "no predictions">>}
SubString(a, b) == a = b \/ <<a, b>> \in ProperSubstrings

\* Python's `k in v` for a string k: "true", "false", or "raise" (TypeError)
PyIn(k, v) ==
    CASE v.t = "obj" -> IF HasKey(v, k) THEN "true" ELSE "false"
      [] v.t = "list" -> IF \E i \in 1..Len(v.xs) : v.xs[i] = JStr(k) THEN "true" ELSE "false"
      [] v.t = "str" -> IF SubString(k, v.s) THEN "true" ELSE "false"
      [] OTHER -> "raise"

\* Python's `None in v`: a str raises, a number or None raises, a list compares items
PyNoneIn(v) ==
    CASE v.t = "obj" -> "false"
      [] v.t = "list" -> IF \E i \in 1..Len(v.xs) : v.xs[i] = JNull THEN "true" ELSE "false"
      [] OTHER -> "raise"

\* str.lower() on the keys of the universe
Lower(k) ==
    CASE k = "Date" -> "date"
      [] k = "DS" -> "ds"
      [] k = "Value" -> "value"
      [] k = "Y" -> "y"
      [] OTHER -> k

\* round(x): half to even, Python's built-in and numpy's alike; tenths in, tenths out
Round(n) ==
    LET q == n \div 10
        r == n % 10
    IN  IF r < 5 THEN q * 10
        ELSE IF r > 5 THEN (q + 1) * 10
        ELSE IF q % 2 = 0 THEN q * 10 ELSE (q + 1) * 10

\* int(x): truncation toward zero
Trunc(n) == IF n >= 0 THEN (n \div 10) * 10 ELSE 0 - (((0 - n) \div 10) * 10)

(***************************************************************************)
(* The calendar of datetime.date.                                          *)
(***************************************************************************)
IsLeap(y) == y % 4 = 0 /\ (y % 100 # 0 \/ y % 400 = 0)

DaysInMonth(y, m) ==
    IF m = 2 THEN (IF IsLeap(y) THEN 29 ELSE 28)
    ELSE IF m \in {4, 6, 9, 11} THEN 30 ELSE 31

DaysBeforeYear(y) ==
    LET p == y - 1 IN p * 365 + (p \div 4) - (p \div 100) + (p \div 400)

RECURSIVE DaysBeforeMonth(_, _)
DaysBeforeMonth(y, m) ==
    IF m = 1 THEN 0 ELSE DaysBeforeMonth(y, m - 1) + DaysInMonth(y, m - 1)

\* date(y, m, d).toordinal()
ToOrdinal(y, m, d) == DaysBeforeYear(y) + DaysBeforeMonth(y, m) + d

\* date.fromordinal(n), as [y, m, d]
FromOrdinal(n) ==
    LET n0 == n - 1
        n400 == n0 \div 146097
        r400 == n0 % 146097
        n100 == r400 \div 36524
        r100 == r400 % 36524
        n4 == r100 \div 1461
        r4 == r100 % 1461
        n1 == r4 \div 365
        r1 == r4 % 365
        year == n400 * 400 + 1 + n100 * 100 + n4 * 4 + n1
    IN  IF n1 = 4 \/ n100 = 4
        THEN [y |-> year - 1, m |-> 12, d |-> 31]
        ELSE LET mo == CHOOSE k \in 1..12 :
                          /\ DaysBeforeMonth(year, k) <= r1
                          /\ r1 < DaysBeforeMonth(year, k) + DaysInMonth(year, k)
             IN  [y |-> year, m |-> mo, d |-> r1 - DaysBeforeMonth(year, mo) + 1]

\* date.weekday(): Monday is 0
Weekday(n) == (n + 6) % 7

\* date.replace(day=k)
ReplaceDay(n, k) == LET c == FromOrdinal(n) IN ToOrdinal(c.y, c.m, k)

(***************************************************************************)
(* pandas: the columns of the DataFrame parse_predictions builds.          *)
(***************************************************************************)
\* the date strings of the universe, with the date each one spells
DateTable == << [s |-> "2024-01-01", y |-> 2024, m |-> 1, d |-> 1],
                [s |-> "2024-01-02", y |-> 2024, m |-> 1, d |-> 2],
                [s |-> "2024-01-03", y |-> 2024, m |-> 1, d |-> 3] >>
DateTexts == {DateTable[i].s : i \in 1..Len(DateTable)}
ParseISO(s) ==
    LET e == DateTable[CHOOSE i \in 1..Len(DateTable) : DateTable[i].s = s]
    IN  ToOrdinal(e.y, e.m, e.d)

\* the strings a date column can hold, in the order Python compares them
StrOrder == <<"2024-01-01", "2024-01-02", "2024-01-03", "abc", "total">>
StrRank(s) == CHOOSE i \in 1..Len(StrOrder) : StrOrder[i] = s

\* a frame is None or a sequence of rows [idx, date, value], idx the row's label
NoDF == [none |-> TRUE, rows |-> <<>>]
Frame(rows) == [none |-> FALSE, rows |-> rows]
Row(i, d, v) == [idx |-> i, date |-> d, value |-> v]

\* pd.DataFrame(rows): a column of numbers and None is float64 with NaN for
\* None; any other column with None or a string is object and keeps its cells
FrameColumn(col) ==
    IF /\ \A i \in 1..Len(col) : col[i].t \in {"num", "null"}
       /\ \E i \in 1..Len(col) : col[i].t = "num"
    THEN [i \in 1..Len(col) |-> IF col[i].t = "null" THEN NaN ELSE col[i]]
    ELSE col

\* pd.to_datetime(column): a date string parses, None is NaT, any other
\* string raises (ok = FALSE)
ToDatetime(col) ==
    IF \A i \in 1..Len(col) :
          \/ col[i].t = "null"
          \/ col[i].t = "str" /\ col[i].s \in DateTexts
    THEN [ok |-> TRUE,
          col |-> [i \in 1..Len(col) |->
                     IF col[i].t = "null" THEN NaT
                     ELSE Timestamp(ParseISO(col[i].s))]]
    ELSE [ok |-> FALSE, col |-> col]

\* column.round().astype(int): raises on NaN, None and strings
RoundAsInt(col) ==
    IF \A i \in 1..Len(col) : col[i].t = "num"
    THEN [ok |-> TRUE, col |-> [i \in 1..Len(col) |-> JNum(Round(col[i].n))]]
    ELSE [ok |-> FALSE, col |-> col]

\* missing values (None, NaT) sort last
IsMissing(c) == c.t \in {"null", "nat", "nan"}
DateLE(a, b) ==
    IF IsMissing(b) THEN TRUE
    ELSE IF IsMissing(a) THEN FALSE
    ELSE IF a.t = "ts" /\ b.t = "ts" THEN a.n <= b.n
    ELSE StrRank(a.s) <= StrRank(b.s)

RowOrders(n) == {p \in [1..n -> 1..n] : \A i, j \in 1..n : i # j => p[i] # p[j]}

\* line 74 without the sort: the rows as they were built
SortValuesSkipped(rows) == {rows}

\* df.sort_values('date'): every order of the rows that is ascending by date
\* with the missing dates last (the default sort is not stable, so rows of
\* equal date may come in any order); each row keeps its label
SortValues(rows) ==
    LET n == Len(rows)
    IN  {[i \in 1..n |-> rows[p[i]]] :
            p \in {q \in RowOrders(n) :
                     \A i \in 1..(n - 1) : DateLE(rows[q[i]].date, rows[q[i + 1]].date)}}

(***************************************************************************)
(* parse_predictions                                                       *)
(***************************************************************************)
Unset == JV("unset", 0, "", <<>>, <<>>)
NoData == JStr("No data")
Unparseable == JStr("Unable to parse prediction payload")

Outcome(r, p, dk, vk, f, e) ==
    [raised |-> r, preds |-> p, date_key |-> dk, value_key |-> vk, df |-> f, err |-> e]
Raise(p, dk, vk) == Outcome(TRUE, p, dk, vk, NoDF, JNull)

\* line 59 with `payload is None` in the place of `not payload`
IsErrorPayloadNoneOnly(p) == p.t = "null" \/ (IsDict(p) /\ HasKey(p, "error"))

\* line 59: the guard of the error return
IsErrorPayload(p) == ~Truthy(p) \/ (IsDict(p) /\ HasKey(p, "error"))

\* line 60: payload.get('error') if isinstance(payload, dict) else "No data"
ErrorReason(p) == IF IsDict(p) THEN Get(p, "error") ELSE NoData

\* lines 62-68: the candidate collection, or a TypeError from
\* `'predictions' in payload['data']` / payload['data']['predictions']
SelectPreds(p) ==
    IF IsDict(p) /\ HasKey(p, "data")
    THEN LET d == Get(p, "data")
             r == PyIn("predictions", d)
         IN  IF r = "raise" THEN [raised |-> TRUE, preds |-> Unset]
             ELSE IF r = "true"
                  THEN IF IsDict(d)
                       THEN [raised |-> FALSE, preds |-> Get(d, "predictions")]
                       ELSE [raised |-> TRUE, preds |-> Unset]
             ELSE IF HasKey(p, "predictions")
                  THEN [raised |-> FALSE, preds |-> Get(p, "predictions")]
                  ELSE [raised |-> FALSE, preds |-> p]
    ELSE IF IsDict(p) /\ HasKey(p, "predictions")
         THEN [raised |-> FALSE, preds |-> Get(p, "predictions")]
         ELSE [raised |-> FALSE, preds |-> p]

\* lines 70-74: the mapping case; nothing catches what to_datetime or
\* astype(int) raise here
FromMapping(m) ==
    LET n == Len(m.ks)
        dates == ToDatetime([i \in 1..n |-> JStr(m.ks[i])])
        values == RoundAsInt(FrameColumn(m.xs))
    IN  IF ~dates.ok \/ ~values.ok THEN {Raise(m, NoKey, NoKey)}
        ELSE {Outcome(FALSE, m, NoKey, NoKey, Frame(s), JNull) :
                 s \in SortValues([i \in 1..n |-> Row(i - 1, dates.col[i], values.col[i])])}

DateAliases == <<"date", "ds", "day">>
ValueAliases == <<"value", "y", "tickets", "count", "volume">>
InTuple(x, tup) == \E i \in 1..Len(tup) : tup[i] = x

\* lines 81-86: the loop over the first record's keys, for one role: every
\* key whose lower case is an alias overwrites the choice
RECURSIVE ScanKeysFirst(_, _, _, _)
ScanKeysFirst(ks, i, aliases, cur) ==
    IF i > Len(ks) THEN cur
    ELSE ScanKeysFirst(ks, i + 1, aliases,
                       IF cur = NoKey /\ InTuple(Lower(ks[i]), aliases) THEN ks[i] ELSE cur)

RECURSIVE ScanKeys(_, _, _, _)
ScanKeys(ks, i, aliases, cur) ==
    IF i > Len(ks) THEN cur
    ELSE ScanKeys(ks, i + 1, aliases,
                  IF InTuple(Lower(ks[i]), aliases) THEN ks[i] ELSE cur)

\* lines 78-90: date_key and value_key
InferDateKey(ks) ==
    LET k == ScanKeys(ks, 1, DateAliases, NoKey)
    IN  IF k = NoKey /\ Len(ks) >= 1 THEN ks[1] ELSE k
InferValueKey(ks) ==
    LET k == ScanKeys(ks, 1, ValueAliases, NoKey)
    IN  IF k = NoKey /\ Len(ks) >= 2 THEN ks[2] ELSE k

\* lines 95-96: item.get(key) if key in item else None; "raise" is whatever
\* the try of lines 94-99 catches (TypeError of `in`, AttributeError of .get)
Field(item, key) ==
    LET r == IF key = NoKey THEN PyNoneIn(item) ELSE PyIn(key, item)
    IN  IF r = "raise" THEN [ok |-> FALSE, v |-> JNull]
        ELSE IF r = "false" THEN [ok |-> TRUE, v |-> JNull]
        ELSE IF IsDict(item) THEN [ok |-> TRUE, v |-> Get(item, key)]
        ELSE [ok |-> FALSE, v |-> JNull]

\* lines 92-99: the rows, one per item whose extraction does not raise
RECURSIVE ExtractRows(_, _, _, _)
ExtractRows(items, i, dk, vk) ==
    IF i > Len(items) THEN <<>>
    ELSE LET d == Field(items[i], dk)
             v == Field(items[i], vk)
             rest == ExtractRows(items, i + 1, dk, vk)
         IN  IF d.ok /\ v.ok THEN <<[date |-> d.v, value |-> v.v]>> \o rest ELSE rest

\* lines 100-105: the bulk coercion under one try: when to_datetime raises
\* neither column is converted, when astype(int) raises only the dates are
CoerceRows(raw) ==
    LET n == Len(raw)
        datecol == [i \in 1..n |-> raw[i].date]
        valuecol == FrameColumn([i \in 1..n |-> raw[i].value])
        dates == ToDatetime(datecol)
        values == RoundAsInt(valuecol)
    IN  [i \in 1..n |->
           Row(i - 1,
               IF dates.ok THEN dates.col[i] ELSE datecol[i],
               IF dates.ok /\ values.ok THEN values.col[i] ELSE valuecol[i])]

\* lines 77-106: the list-of-records case
FromRecords(l) ==
    LET ks == l.xs[1].ks
        dk == InferDateKey(ks)
        vk == InferValueKey(ks)
        rows == CoerceRows(ExtractRows(l.xs, 1, dk, vk))
    IN  {Outcome(FALSE, l, dk, vk, Frame(s), JNull) : s \in SortValues(rows)}

\* the number a list element stands for: True is 1, False is 0
NumberOf(v) == IF v.t = "bool" THEN v.n * 10 ELSE v.n

\* lines 108-113: the list-of-numbers case (all() of an empty list is True)
FromNumbers(l, now) ==
    Outcome(FALSE, l, NoKey, NoKey,
            Frame([i \in 1..Len(l.xs) |->
                     Row(i - 1, Timestamp(now + (i - 1)), JNum(Round(NumberOf(l.xs[i]))))]),
            JNull)

\* lines 58-115: every outcome parse_predictions(payload) can have on a day
parse_predictions(p, now) ==
    IF IsErrorPayload(p)
    THEN {Outcome(FALSE, Unset, NoKey, NoKey, NoDF, ErrorReason(p))}
    ELSE LET sel == SelectPreds(p)
             c == sel.preds
         IN  IF sel.raised THEN {Raise(Unset, NoKey, NoKey)}
             ELSE IF IsDict(c) THEN FromMapping(c)
             ELSE IF IsList(c) /\ Len(c.xs) > 0 /\ IsDict(c.xs[1]) THEN FromRecords(c)
             ELSE IF IsList(c) /\ \A i \in 1..Len(c.xs) : IsNumber(c.xs[i])
                  THEN {FromNumbers(c, now)}
             ELSE {Outcome(FALSE, c, NoKey, NoKey, NoDF, Unparseable)}

(***************************************************************************)
(* plot_predictions: the chart and the summary                             *)
(***************************************************************************)
NoSummary == [computed |-> FALSE, total |-> 0, max_v |-> 0, max_date |-> NaT,
              min_v |-> 0, min_date |-> NaT]

\* the rows whose value is a number (sum, idxmax and idxmin skip NaN)
NumberRows(rows) == {i \in 1..Len(rows) : rows[i].value.t = "num"}

\* line 125: Series.idxmax(), the label of the first row holding the maximum
IdxMax(rows) ==
    LET nums == NumberRows(rows)
        pos == CHOOSE i \in nums :
                  /\ \A j \in nums : rows[j].value.n <= rows[i].value.n
                  /\ \A j \in nums : j < i => rows[j].value.n < rows[i].value.n
    IN  rows[pos].idx

\* line 126: Series.idxmin()
IdxMin(rows) ==
    LET nums == NumberRows(rows)
        pos == CHOOSE i \in nums :
                  /\ \A j \in nums : rows[j].value.n >= rows[i].value.n
                  /\ \A j \in nums : j < i => rows[j].value.n > rows[i].value.n
    IN  rows[pos].idx

\* df.loc[label]
Loc(rows, label) == rows[CHOOSE i \in 1..Len(rows) : rows[i].idx = label]

\* df['value'].sum()
RECURSIVE SumValues(_, _)
SumValues(rows, i) ==
    IF i > Len(rows) THEN 0
    ELSE (IF rows[i].value.t = "num" THEN rows[i].value.n ELSE 0) + SumValues(rows, i + 1)

\* the dtype of a column: datetime64 for the .dt accessor of line 123,
\* numeric for idxmax / idxmin (an object column raises TypeError)
IsDatetimeColumn(rows) == \A i \in 1..Len(rows) : rows[i].date.t \in {"ts", "nat"}
IsNumericColumn(rows) == \A i \in 1..Len(rows) : rows[i].value.t \in {"num", "nan"}

\* lines 154-158
Summarize(rows) ==
    LET mx == Loc(rows, IdxMax(rows))
        mn == Loc(rows, IdxMin(rows))
    IN  [computed |-> TRUE,
         total |-> Trunc(SumValues(rows, 1)),
         max_v |-> Trunc(mx.value.n), max_date |-> mx.date,
         min_v |-> Trunc(mn.value.n), min_date |-> mn.date]

\* lines 118-188: what is shown, whether an exception leaves the function, and
\* the summary.  format_date(NaT) raises (NaT has no strftime) after the chart
plot_predictions(f) ==
    IF f.none \/ Len(f.rows) = 0
    THEN [events |-> <<"st.warning">>, raised |-> FALSE, summary |-> NoSummary]
    ELSE IF ~IsDatetimeColumn(f.rows) \/ ~IsNumericColumn(f.rows)
    THEN [events |-> <<>>, raised |-> TRUE, summary |-> NoSummary]
    ELSE LET sm == Summarize(f.rows)
         IN  IF sm.max_date.t = "nat" \/ sm.min_date.t = "nat"
             THEN [events |-> <<"st.plotly_chart">>, raised |-> TRUE, summary |-> sm]
             ELSE [events |-> <<"st.plotly_chart", "summary">>, raised |-> FALSE,
                   summary |-> sm]

(***************************************************************************)
(* map_quick_to_dates                                                      *)
(***************************************************************************)
QuickOptions == {"Tomorrow", "Next 2 Days", "Next 7 Days", "This Week",
                 "This Month", "Next 30 Days"}

\* lines 236-238, with the 4 of timedelta(days=4) replaced by 3
ThisMonthShort(now) ==
    [s |-> ReplaceDay(now, 1), e |-> ReplaceDay(ReplaceDay(now, 28) + 3, 1) - 1]

\* lines 236-238
ThisMonth(now) ==
    [s |-> ReplaceDay(now, 1), e |-> ReplaceDay(ReplaceDay(now, 28) + 4, 1) - 1]

\* lines 220-244
map_quick_to_dates(option_str, now) ==
    CASE option_str = "Tomorrow" -> [s |-> now + 1, e |-> now + 1]
      [] option_str = "Next 2 Days" -> [s |-> now + 1, e |-> now + 2]
      [] option_str = "Next 7 Days" -> [s |-> now + 1, e |-> now + 7]
      [] option_str = "This Week" -> [s |-> now, e |-> now + (6 - Weekday(now))]
      [] option_str = "This Month" -> ThisMonth(now)
      [] option_str = "Next 30 Days" -> [s |-> now, e |-> now + 30]
      [] OTHER -> [s |-> now, e |-> now]

(***************************************************************************)
(* The payloads fetch_api can return: a bounded universe of decoded JSON.  *)
(* A field that the key inference picks as the date holds a string or is   *)
(* missing; numbers as dates, NaN / Infinity literals, the empty mapping   *)
(* and date strings of mixed formats are outside the universe.             *)
(***************************************************************************)
SeqsOf(S, lo, hi) == UNION {[1..k -> S] : k \in lo..hi}
Injective(q) == \A i, j \in 1..Len(q) : i # j => q[i] # q[j]

\* mappings {key: value, ...} in every entry order
MapKeys == DateTexts \cup {"total"}
MapValues == {JNum(100), JNum(37), JNum(25), JNull}
Mappings ==
    {JObj(ks, xs) : <<ks, xs>> \in
        UNION {{q \in [1..k -> MapKeys] : Injective(q)} \X [1..k -> MapValues] :
                  k \in 1..MaxLen}}

\* records {"date": d, "value": v}, records lacking one of the two, and
\* elements that are no record
FullRecords ==
    {JObj(<<"date", "value">>, <<JStr(d), v>>) :
        d \in {"2024-01-01", "2024-01-02", "abc"}, v \in {JNum(37), JNum(100), JStr("abc")}}
DateOnly == JObj(<<"date">>, <<JStr("2024-01-03")>>)
ValueOnly == JObj(<<"value">>, <<JNum(25)>>)
RecordItems == FullRecords \cup {DateOnly, ValueOnly, JNum(50), JStr("abc")}
RecordLists ==
    {JList(l) : l \in {q \in SeqsOf(RecordItems, 1, MaxLen) :
                          q[1] \in FullRecords \cup {DateOnly}}}

\* the key sequences of a first record, for the key inference; "when", "n"
\* and "id" are no alias.  Text keys hold a date string, the others a number
Shapes == {<<"ds", "y">>, <<"day", "tickets">>, <<"Date", "Value">>, <<"DS", "Y">>,
           <<"date", "count">>, <<"date", "volume">>, <<"when", "n">>,
           <<"value", "date">>, <<"n", "ds">>, <<"when", "date">>,
           <<"date", "day", "value">>, <<"day", "date", "value">>,
           <<"ds", "value", "y">>, <<"ds", "y", "value">>,
           <<"when", "tickets", "count">>, <<"when">>, <<"when", "id", "n">>, <<>>}
TextKeys == {"date", "ds", "day", "Date", "DS", "when"}
RecordOf(ks, d, v) == JObj(ks, [i \in 1..Len(ks) |-> IF ks[i] \in TextKeys THEN JStr(d) ELSE JNum(v)])
ShapeLists ==
    {JList(<<RecordOf(ks, "2024-01-02", 37)>>) : ks \in Shapes}
    \cup {JList(<<RecordOf(ks, "2024-01-02", 37), RecordOf(ks, "2024-01-01", 100)>>) :
             ks \in Shapes}

\* lists that do not start with a record
PlainItems == {JNum(37), JNum(25), JBool(TRUE), JNull, JStr("abc"), DateOnly}
PlainLists ==
    {JList(l) : l \in {q \in SeqsOf(PlainItems, 0, MaxLen) : Len(q) > 0 => q[1] # DateOnly}}

Scalars == {JNull, JNum(50), JNum(0), JStr("abc"), JStr(""), JBool(TRUE), JBool(FALSE)}

Candidates == Mappings \cup RecordLists \cup ShapeLists \cup PlainLists \cup Scalars

\* the candidates that are tried inside an envelope
Enveloped ==
    {JObj(<<"2024-01-02", "2024-01-01">>, <<JNum(100), JNum(37)>>),
     JObj(<<"total">>, <<JNum(100)>>),
     JList(<<JObj(<<"date", "value">>, <<JStr("2024-01-02"), JNum(37)>>), DateOnly>>),
     JList(<<JNum(37), JNum(25)>>),
     JList(<<>>), JList(<<JStr("abc")>>), JNull, JNum(50), JStr("abc")}

\* what the `data` field holds when it does not hold the predictions
DataValues ==
    {JNum(50), JNull, JBool(TRUE), JStr("abc"), JStr("predictions"), JStr("no predictions"),
     JList(<<>>), JList(<<JStr("predictions")>>), JObj(<<"meta">>, <<JNum(10)>>),
     JObj(<<>>, <<>>)}

Envelopes ==
    {JObj(<<"predictions">>, <<c>>) : c \in Enveloped}
    \cup {JObj(<<"data">>, <<JObj(<<"predictions">>, <<c>>)>>) : c \in Enveloped}
    \cup {JObj(<<"data", "predictions">>,
               <<JObj(<<"predictions">>, <<c>>), JNum(50)>>) : c \in Enveloped}
    \cup {JObj(<<"data", "predictions">>, <<x, c>>) : x \in DataValues, c \in Enveloped}
    \cup {JObj(<<"data">>, <<x>>) : x \in DataValues}

ErrorPayloads ==
    {JObj(<<"error">>, <<e>>) : e \in {JStr("timeout"), JStr(""), JNull, JNum(0)}}
    \cup {JObj(<<"error", "predictions">>, <<JStr("timeout"), c>>) : c \in Enveloped}
    \cup {JObj(<<>>, <<>>)}

Payloads == Candidates \cup Envelopes \cup ErrorPayloads

(***************************************************************************)
(* The script: one run per button press.                                   *)
(***************************************************************************)
Todays == {ToOrdinal(2024, 2, 28), ToOrdinal(2024, 12, 31)}
NoArgs == [option |-> "", manual_days |-> 0, start |-> 0, end |-> 0]
NoRange == [s |-> 0, e |-> 0]

Init ==
    /\ today \in Todays
    /\ handler = "idle"
    /\ args = NoArgs
    /\ payload = Unset
    /\ raised = ""
    /\ preds = Unset
    /\ date_key = NoKey
    /\ value_key = NoKey
    /\ df = NoDF
    /\ err = JNull
    /\ summary = NoSummary
    /\ log = <<>>
    /\ qopt = ""
    /\ qrange = NoRange

\* lines 252-257, 266-271, 281-286: after parse_predictions, the error branch
\* or the success branch with plot_predictions; nothing catches an exception
AfterParse(out) ==
    IF out.raised
    THEN [log |-> <<"fetch_api", "parse_predictions", "raise">>,
          raised |-> "parse_predictions", summary |-> NoSummary]
    ELSE IF Truthy(out.err)
    THEN [log |-> <<"fetch_api", "parse_predictions", "st.error">>,
          raised |-> "", summary |-> NoSummary]
    ELSE LET pl == plot_predictions(out.df)
         IN  [log |-> <<"fetch_api", "parse_predictions", "st.success", "plot_predictions">>
                      \o pl.events \o (IF pl.raised THEN <<"raise">> ELSE <<>>),
              raised |-> IF pl.raised THEN "plot_predictions" ELSE "",
              summary |-> pl.summary]

\* fetch_api returned p: parse it and show the result
Respond(h, a, p) ==
    \E out \in parse_predictions(p, today) :
        LET r == AfterParse(out)
        IN  /\ handler' = h
            /\ args' = a
            /\ payload' = p
            /\ raised' = r.raised
            /\ preds' = out.preds
            /\ date_key' = out.date_key
            /\ value_key' = out.value_key
            /\ df' = out.df
            /\ err' = out.err
            /\ summary' = r.summary
            /\ log' = r.log

\* lines 247-257
trigger_quick_prediction(option, p) ==
    /\ LET r == map_quick_to_dates(option, today)
       IN  Respond("quick", [option |-> option, manual_days |-> 0, start |-> r.s, end |-> r.e], p)
    /\ UNCHANGED <<today, qopt, qrange>>

\* lines 259-271
trigger_alt_prediction(manual_days, p) ==
    /\ Respond("alt", [option |-> "", manual_days |-> manual_days,
                       start |-> today, end |-> today + manual_days], p)
    /\ UNCHANGED <<today, qopt, qrange>>

\* lines 273-286, the guard of line 274 turned around
RangeRejectedStrict(start_date, end_date) == end_date <= start_date

\* line 274
RangeRejected(start_date, end_date) == end_date < start_date

\* lines 273-286
trigger_range_prediction(start_date, end_date, p) ==
    /\ IF RangeRejected(start_date, end_date)
       THEN /\ handler' = "range"
            /\ args' = [option |-> "", manual_days |-> 0, start |-> start_date, end |-> end_date]
            /\ log' = <<"st.error">>
            /\ UNCHANGED <<payload, raised, preds, date_key, value_key, df, err, summary>>
       ELSE Respond("range", [option |-> "", manual_days |-> 0,
                              start |-> start_date, end |-> end_date], p)
    /\ UNCHANGED <<today, qopt, qrange>>

\* the next run of the script starts from nothing
Rerun ==
    /\ handler # "idle"
    /\ handler' = "idle"
    /\ args' = NoArgs
    /\ payload' = Unset
    /\ raised' = ""
    /\ preds' = Unset
    /\ date_key' = NoKey
    /\ value_key' = NoKey
    /\ df' = NoDF
    /\ err' = JNull
    /\ summary' = NoSummary
    /\ log' = <<>>
    /\ UNCHANGED <<today, qopt, qrange>>

\* the dates the range pickers are set to
RangeDates == UNION {t..(t + 1) : t \in Todays}

\* lines 289-290: the quick button was pressed; the handler runs with the
\* selected option and with what the API answers
go_btn_quick ==
    /\ handler = "idle"
    /\ \E o \in QuickOptions, p \in Payloads : trigger_quick_prediction(o, p)

\* lines 291-292
go_btn_alt ==
    /\ handler = "idle"
    /\ \E n \in 1..MaxManualDays, p \in Payloads : trigger_alt_prediction(n, p)

\* lines 293-294
go_btn_range ==
    /\ handler = "idle"
    /\ \E sd \in RangeDates, ed \in RangeDates, p \in Payloads :
          trigger_range_prediction(sd, ed, p)

Next == go_btn_quick \/ go_btn_alt \/ go_btn_range \/ Rerun

Spec == Init /\ [][Next]_vars

(***************************************************************************)
(* The quick-range mapper on every day of NumYears years.                  *)
(***************************************************************************)
FirstDay == ToOrdinal(FirstYear, 1, 1)
LastDay == ToOrdinal(FirstYear + NumYears, 1, 1) - 1

InitQuick ==
    /\ today = FirstDay
    /\ handler = "idle"
    /\ args = NoArgs
    /\ payload = Unset
    /\ raised = ""
    /\ preds = Unset
    /\ date_key = NoKey
    /\ value_key = NoKey
    /\ df = NoDF
    /\ err = JNull
    /\ summary = NoSummary
    /\ log = <<>>
    /\ qopt = ""
    /\ qrange = NoRange

\* line 248: s, e = map_quick_to_dates(option_str)
MapQuick(o) ==
    /\ qopt' = o
    /\ qrange' = map_quick_to_dates(o, today)
    /\ UNCHANGED <<today, handler, args, payload, raised, preds, date_key, value_key,
                   df, err, summary, log>>

\* datetime.now().date() is one day later
Midnight ==
    /\ today < LastDay
    /\ today' = today + 1
    /\ qopt' = ""
    /\ qrange' = NoRange
    /\ UNCHANGED <<handler, args, payload, raised, preds, date_key, value_key,
                   df, err, summary, log>>

NextQuick ==
    \/ \E o \in QuickOptions : MapQuick(o)
    \/ Midnight

SpecQuick == InitQuick /\ [][NextQuick]_vars

(***************************************************************************)
(* Properties.  A run has fetched when `payload` is set; the properties    *)
(* read what the run left behind.                                          *)
(***************************************************************************)
Fetched == handler # "idle" /\ payload # Unset
Last(q) == q[Len(q)]
Count(q, x) == Cardinality({i \in 1..Len(q) : q[i] = x})
EmptyValues == {JNull, JObj(<<>>, <<>>), JList(<<>>), JStr(""), JNum(0), JBool(FALSE)}
HasError(p) == p.t = "obj" /\ \E i \in 1..Len(p.ks) : p.ks[i] = "error"

\* C1 (as claimed): a payload that is empty / null or an object with an
\* `error` key makes parse_predictions fail: no frame, and a non-empty
\* reason that is the `error` field's value when the key is present and
\* "No data" otherwise, so that the handler shows st.error.
C1_ErrorPayloadFails ==
    (Fetched /\ (payload \in EmptyValues \/ HasError(payload)))
    => /\ raised = ""
       /\ df.none
       /\ err.t = "str" /\ err.s # ""
       /\ err = (IF HasError(payload) THEN Get(payload, "error") ELSE JStr("No data"))
       /\ Last(log) = "st.error"
       /\ Count(log, "st.success") = 0

\* the candidate collection as the specification selects it
SpecCandidate(p) ==
    IF p.t = "obj" /\ HasKey(p, "data") /\ Get(p, "data").t = "obj"
       /\ HasKey(Get(p, "data"), "predictions")
    THEN Get(Get(p, "data"), "predictions")
    ELSE IF p.t = "obj" /\ HasKey(p, "predictions") THEN Get(p, "predictions")
    ELSE p

\* C2 (as claimed): for a non-empty payload without `error` the candidate is
\* data.predictions when `data` is an object holding `predictions`, else the
\* top-level `predictions`, else the payload; a `data` that is no object
\* falls through and nothing fails.
C2_CandidateSelection ==
    (Fetched /\ payload \notin EmptyValues /\ ~HasError(payload))
    => preds = SpecCandidate(payload)

\* a mapping from date keys to numbers
ValidMapping(c) ==
    /\ c.t = "obj"
    /\ \A i \in 1..Len(c.ks) : c.ks[i] \in {"2024-01-01", "2024-01-02", "2024-01-03"}
    /\ \A i \in 1..Len(c.xs) : c.xs[i].t = "num"
ExpectedDay(k) ==
    CASE k = "2024-01-01" -> 1 [] k = "2024-01-02" -> 2 [] k = "2024-01-03" -> 3
ExpectedRound(n) ==
    CASE n = 100 -> 100 [] n = 37 -> 40 [] n = 25 -> 20

\* C3: when the candidate is a mapping from valid date keys to numbers,
\* parse_predictions succeeds with exactly one point per entry (the parsed
\* key, the rounded value) and the series is ascending by date, whatever
\* the order of the entries.
C3_MappingOnePointPerEntrySorted ==
    (Fetched /\ ValidMapping(preds))
    => /\ raised = "" /\ err = JNull /\ ~df.none
       /\ Len(df.rows) = Len(preds.ks)
       /\ \A i \in 1..Len(preds.ks) :
             Cardinality({j \in 1..Len(df.rows) :
                 /\ df.rows[j].date = Timestamp(ToOrdinal(2024, 1, ExpectedDay(preds.ks[i])))
                 /\ df.rows[j].value = JNum(ExpectedRound(preds.xs[i].n))}) = 1
       /\ \A i \in 1..(Len(df.rows) - 1) : df.rows[i].date.n <= df.rows[i + 1].date.n

\* C3 witness: a mapping given latest entry first came back earliest first
C3_Witness ==
    /\ Fetched
    /\ preds = JObj(<<"2024-01-02", "2024-01-01">>, <<JNum(25), JNum(37)>>)
    /\ Len(df.rows) = 2
    /\ df.rows[1].date = Timestamp(ToOrdinal(2024, 1, 1))
    /\ df.rows[1].value = JNum(40)
    /\ df.rows[2].value = JNum(20)

\* the list-of-records case was taken
RecordsCase == Fetched /\ preds.t = "list" /\ Len(preds.xs) > 0 /\ preds.xs[1].t = "obj"
FirstKeys == preds.xs[1].ks
LowerCase(k) ==
    CASE k = "Date" -> "date" [] k = "DS" -> "ds" [] k = "Value" -> "value"
      [] k = "Y" -> "y" [] OTHER -> k
MatchingFields(ks, aliases) ==
    {i \in 1..Len(ks) : \E a \in 1..Len(aliases) : LowerCase(ks[i]) = aliases[a]}
\* the field matching the alias of highest priority (the earliest in the list)
ByPriority(ks, aliases) ==
    LET a == CHOOSE x \in 1..Len(aliases) :
                /\ \E i \in 1..Len(ks) : LowerCase(ks[i]) = aliases[x]
                /\ \A y \in 1..(x - 1) : \A i \in 1..Len(ks) : LowerCase(ks[i]) # aliases[y]
    IN  ks[CHOOSE i \in 1..Len(ks) : LowerCase(ks[i]) = aliases[a]]
\* the last field, in the record's order, that matches any alias
LastInRecord(ks, aliases) ==
    ks[CHOOSE i \in MatchingFields(ks, aliases) : \A j \in MatchingFields(ks, aliases) : j <= i]

\* C4 (as claimed): among several fields matching aliases of one role the
\* field of the highest-priority alias is chosen; without a match the first
\* field is the date and the second the value.
C4_HighestPriorityAlias ==
    (RecordsCase /\ Len(FirstKeys) >= 2)
    => /\ date_key = (IF MatchingFields(FirstKeys, <<"date", "ds", "day">>) # {}
                      THEN ByPriority(FirstKeys, <<"date", "ds", "day">>)
                      ELSE FirstKeys[1])
       /\ value_key = (IF MatchingFields(FirstKeys, <<"value", "y", "tickets", "count", "volume">>) # {}
                       THEN ByPriority(FirstKeys, <<"value", "y", "tickets", "count", "volume">>)
                       ELSE FirstKeys[2])

\* C4 (amended): the field chosen for a role is the last field of the first
\* record, in field order, whose lower-cased name is an alias of the role;
\* without a match the date is the first field (none for an empty record)
\* and the value is the second field (none for a record of fewer than two).
C4_LastMatchingField ==
    RecordsCase
    => /\ date_key = (IF MatchingFields(FirstKeys, <<"date", "ds", "day">>) # {}
                      THEN LastInRecord(FirstKeys, <<"date", "ds", "day">>)
                      ELSE IF Len(FirstKeys) >= 1 THEN FirstKeys[1] ELSE NoKey)
       /\ value_key = (IF MatchingFields(FirstKeys, <<"value", "y", "tickets", "count", "volume">>) # {}
                       THEN LastInRecord(FirstKeys, <<"value", "y", "tickets", "count", "volume">>)
                       ELSE IF Len(FirstKeys) >= 2 THEN FirstKeys[2] ELSE NoKey)

\* C4 witness: `date` comes before `day`, and `day` was chosen
C4_Witness ==
    /\ RecordsCase
    /\ FirstKeys = <<"date", "day", "value">>
    /\ date_key = "day"
    /\ value_key = "value"

UnsupportedList(c) ==
    /\ c.t = "list" /\ Len(c.xs) > 0 /\ c.xs[1].t # "obj"
    /\ \E i \in 1..Len(c.xs) : c.xs[i].t \notin {"num", "bool"}

RECURSIVE SumOfValues(_)
SumOfValues(rows) ==
    IF rows = <<>> THEN 0
    ELSE (IF Head(rows).value.t = "num" THEN Head(rows).value.n ELSE 0) + SumOfValues(Tail(rows))

\* C6 (as claimed): the summary of a non-empty series has total = the sum of
\* all values, max.value >= every value >= min.value, and (max.value,
\* max.date), (min.value, min.date) are those of the first point in series
\* order that holds the maximum (the minimum).
C6_SummaryOfSeries ==
    (Fetched /\ summary.computed)
    => LET rows == df.rows
       IN  /\ summary.total = SumOfValues(rows)
           /\ \A i \in 1..Len(rows) :
                 rows[i].value.t = "num"
                 => (summary.max_v >= rows[i].value.n /\ summary.min_v <= rows[i].value.n)
           /\ \E i \in 1..Len(rows) :
                 /\ rows[i].value = JNum(summary.max_v) /\ rows[i].date = summary.max_date
                 /\ \A j \in 1..(i - 1) : rows[j].value # JNum(summary.max_v)
           /\ \E i \in 1..Len(rows) :
                 /\ rows[i].value = JNum(summary.min_v) /\ rows[i].date = summary.min_date
                 /\ \A j \in 1..(i - 1) : rows[j].value # JNum(summary.min_v)

\* the preset table, from the calendar
LastOfMonth(c) == ToOrdinal(c.y, c.m, DaysInMonth(c.y, c.m))
SameMonth(n, c) == FromOrdinal(n).y = c.y /\ FromOrdinal(n).m = c.m
PresetTable(o, now) ==
    CASE o = "Tomorrow" -> [s |-> now + 1, e |-> now + 1]
      [] o = "Next 2 Days" -> [s |-> now + 1, e |-> now + 2]
      [] o = "Next 7 Days" -> [s |-> now + 1, e |-> now + 7]
      [] o = "This Week" -> [s |-> now, e |-> CHOOSE d \in now..(now + 6) : d % 7 = 0]
      [] o = "This Month" ->
            [s |-> CHOOSE d \in (now - 30)..now :
                      SameMonth(d, FromOrdinal(now)) /\ ~SameMonth(d - 1, FromOrdinal(now)),
             e |-> CHOOSE d \in now..(now + 30) :
                      SameMonth(d, FromOrdinal(now)) /\ ~SameMonth(d + 1, FromOrdinal(now))]
      [] o = "Next 30 Days" -> [s |-> now, e |-> now + 30]

\* C7: for every preset and every reference date map_quick_to_dates returns
\* the range of the preset table (This Week ends on the Sunday of today's
\* week, This Month spans the first to the last day of today's month), and
\* start <= end.
C7_PresetRanges ==
    qopt \in QuickOptions
    => /\ qrange = PresetTable(qopt, today)
       /\ qrange.s <= qrange.e
       /\ qopt = "This Week" => qrange.e = today + (6 - Weekday(today))
       /\ qopt = "This Month"
             => /\ FromOrdinal(qrange.s) = [FromOrdinal(today) EXCEPT !.d = 1]
                /\ qrange.e = LastOfMonth(FromOrdinal(today))
       /\ (qopt = "This Week" /\ today = ToOrdinal(2024, 6, 12))
             => qrange = [s |-> ToOrdinal(2024, 6, 12), e |-> ToOrdinal(2024, 6, 16)]

\* C7 witness: on 29 February 2024 This Month is 1 to 29 February
C7_Witness ==
    /\ qopt = "This Month"
    /\ today = ToOrdinal(2024, 2, 29)
    /\ qrange = [s |-> ToOrdinal(2024, 2, 1), e |-> ToOrdinal(2024, 2, 29)]

\* C8: in the range action an end date before the start date shows the
\* error and nothing else (no fetch, no parse, no plot); otherwise, end ==
\* start included, exactly one fetch is issued, and it comes first.
C8_RangeValidatedBeforeFetch ==
    handler = "range"
    => IF args.end < args.start
       THEN log = <<"st.error">> /\ payload = Unset
       ELSE Count(log, "fetch_api") = 1 /\ log[1] = "fetch_api" /\ payload # Unset

\* C8 witness: end == start was fetched once
C8_Witness ==
    /\ handler = "range"
    /\ args.end = args.start
    /\ Count(log, "fetch_api") = 1
    /\ Last(log) = "summary"

\* C9 (as claimed): every action ends in something the user sees (an error,
\* or a success followed by the chart with its summary or by the warning)
\* and no exception leaves parse_predictions or plot_predictions.
C9_NoUncaughtException ==
    handler # "idle"
    => /\ raised = ""
       /\ Last(log) \in {"st.error", "st.warning", "summary"}

\* a record holding a date string under date_key and a number under value_key
WellFormed(item) ==
    /\ item.t = "obj"
    /\ HasKey(item, date_key) /\ Get(item, date_key).t = "str"
    /\ Get(item, date_key).s \in {"2024-01-01", "2024-01-02", "2024-01-03"}
    /\ HasKey(item, value_key) /\ Get(item, value_key).t = "num"

\* C10 (as claimed): every record of the list is one row, and an element
\* that is malformed or lacks a field does not change the rows of the
\* well-formed records: their dates are parsed, their values are rounded to
\* integers.
C10_PerElementIsolation ==
    RecordsCase
    => /\ Len(df.rows) >= Cardinality({i \in 1..Len(preds.xs) : preds.xs[i].t = "obj"})
       /\ \A i \in 1..Len(preds.xs) :
             WellFormed(preds.xs[i])
             => \E j \in 1..Len(df.rows) :
                   /\ df.rows[j].date.t = "ts"
                   /\ df.rows[j].date.n = ToOrdinal(2024, 1, ExpectedDay(Get(preds.xs[i], date_key).s))
                   /\ df.rows[j].value.t = "num"
                   /\ df.rows[j].value.n % 10 = 0
                   /\ df.rows[j].value.n - Get(preds.xs[i], value_key).n \in -5..5

=============================================================================
